---- MODULE Spec2Model ----
(***************************************************************************)
(* Model of numsy's descriptive-statistics container                       *)
(* (src/numsy/solver/statistics/statistics.py) and its nine quantile       *)
(* estimators (src/numsy/solver/statistics/_quantiles.py).                 *)
(*                                                                         *)
(* Numbers are exact rationals [num, den] in lowest terms with den > 0.    *)
(* Within the bounds used here the floor, the rounding and the             *)
(* "is an integer" test of every estimator position agree between exact    *)
(* arithmetic and Python's binary floats, so the index computations are    *)
(* those of the code.                                                      *)
(***************************************************************************)
EXTENDS Integers, Sequences, FiniteSets

\* Longest wrapped sequence, and the largest element value, that are explored.
MaxLen == 4
MaxVal == 2
\* Longest wrapped sequence explored among those stored in ascending order.
MaxAscLen == 6

VARIABLES data, pc, call, result

vars == <<data, pc, call, result>>

(***************************************************************************)
(* Exact rational arithmetic.                                              *)
(***************************************************************************)
RECURSIVE GCD(_, _)
GCD(a, b) == IF b = 0 THEN a ELSE GCD(b, a % b)

Abs(x) == IF x < 0 THEN -x ELSE x

Rat(n, d) ==
    LET s == IF d < 0 THEN -1 ELSE 1
        g == GCD(Abs(n), Abs(d))
    IN  [num |-> (s * n) \div g, den |-> (s * d) \div g]

Int2Rat(x) == [num |-> x, den |-> 1]

RAdd(a, b) == Rat(a.num * b.den + b.num * a.den, a.den * b.den)
RSub(a, b) == Rat(a.num * b.den - b.num * a.den, a.den * b.den)
RMul(a, b) == Rat(a.num * b.num, a.den * b.den)
RDiv(a, b) == Rat(a.num * b.den, a.den * b.num)
RLt(a, b)  == a.num * b.den < b.num * a.den
RAbs(a)    == [num |-> Abs(a.num), den |-> a.den]
RFloor(a)  == a.num \div a.den
RIsInt(a)  == a.den = 1

\* Python's round(): to the nearest integer, a tie going to the even one.
PyRound(a) ==
    LET f  == RFloor(a)
        fr == RSub(a, Int2Rat(f))
    IN  IF RLt(fr, Rat(1, 2)) THEN f
        ELSE IF RLt(Rat(1, 2), fr) THEN f + 1
        ELSE IF f % 2 = 0 THEN f ELSE f + 1

(***************************************************************************)
(* Sequences.                                                              *)
(***************************************************************************)
RECURSIVE SeqsUpTo(_, _)
SeqsUpTo(S, n) ==
    IF n = 0 THEN {<<>>}
    ELSE LET shorter == SeqsUpTo(S, n - 1)
         IN  shorter \cup {Append(s, x) : s \in shorter, x \in S}

RECURSIVE Insert(_, _)
Insert(x, s) ==
    IF s = <<>> THEN <<x>>
    ELSE IF x <= Head(s) THEN <<x>> \o s
    ELSE <<Head(s)>> \o Insert(x, Tail(s))

\* Python's sorted(): a new ascending list.
RECURSIVE Sorted(_)
Sorted(s) == IF s = <<>> THEN <<>> ELSE Insert(Head(s), Sorted(Tail(s)))

RECURSIVE SumSeq(_)
SumSeq(s) == IF s = <<>> THEN 0 ELSE Head(s) + SumSeq(Tail(s))

(***************************************************************************)
(* Outcomes of a call: a returned value (a sequence of rationals: one      *)
(* element for a number, three for the quartile triple, any number for a   *)
(* list) or a raised exception with its constructor arguments.  reads is   *)
(* the set of list positions the quantile estimators asked for.            *)
(***************************************************************************)
Out(k, v, i, r) == [kind |-> k, value |-> v, info |-> i, reads |-> r, root |-> FALSE]
Ok(v)           == Out("ok", v, <<>>, {})
Raise(k, i)     == Out(k, <<>>, i, {})
Num(r)          == Ok(<<r>>)
\* math.sqrt of a returned number: kept symbolic, the radicand in value.
SqrtOf(o)       == IF o.kind = "ok" THEN [o EXCEPT !.root = TRUE] ELSE o
NoResult        == Out("none", <<>>, <<>>, {})

EmptyDataError             == Raise("EmptyDataError", <<>>)
InsufficientDataError(k)   == Raise("InsufficientDataError", <<k>>)
SlicingError(slices, size) == Raise("SlicingError", <<slices, size>>)
ValueError                 == Raise("ValueError", <<>>)

(***************************************************************************)
(* Python list indexing: positions 0..n-1, negative positions counted from *)
(* the end, IndexError otherwise.                                          *)
(***************************************************************************)
InRange(s, i) == -Len(s) <= i /\ i < Len(s)
At(s, i)      == IF i >= 0 THEN s[i + 1] ELSE s[Len(s) + i + 1]

\* data[i]
Pick(s, i) ==
    IF InRange(s, i)
    THEN Out("ok", <<Int2Rat(At(s, i))>>, <<>>, {i})
    ELSE Out("IndexError", <<>>, <<>>, {i})

\* data[lower] + (slice_ - int(slice_)) * (data[upper] - data[lower])
Interpolate(s, slice_) ==
    LET upper == RFloor(slice_)
        lower == upper - 1
        frac  == RSub(slice_, Int2Rat(upper))
    IN  IF ~InRange(s, lower)
        THEN Out("IndexError", <<>>, <<>>, {lower})
        ELSE IF ~InRange(s, upper)
        THEN Out("IndexError", <<>>, <<>>, {lower, upper})
        ELSE Out("ok",
                 <<RAdd(Int2Rat(At(s, lower)),
                        RMul(frac, Int2Rat(At(s, upper) - At(s, lower))))>>,
                 <<>>, {lower, upper})

(***************************************************************************)
(* The nine estimators.                                                    *)
(***************************************************************************)
quantile_r1(s, p) == Pick(s, RFloor(RMul(p, Int2Rat(Len(s)))) - 1)

quantile_r2(s, p) ==
    LET slice_ == RMul(p, Int2Rat(Len(s)))
        upper  == RFloor(slice_)
        lower  == upper - 1
    IN  IF RIsInt(slice_) THEN Pick(s, lower)
        ELSE IF ~InRange(s, lower)
        THEN Out("IndexError", <<>>, <<>>, {lower})
        ELSE IF ~InRange(s, upper)
        THEN Out("IndexError", <<>>, <<>>, {lower, upper})
        ELSE Out("ok", <<Rat(At(s, lower) + At(s, upper), 2)>>, <<>>, {lower, upper})

quantile_r3(s, p) == Pick(s, PyRound(RMul(p, Int2Rat(Len(s)))) - 1)

quantile_r4(s, p) == Interpolate(s, RMul(p, Int2Rat(Len(s))))

quantile_r5(s, p) == Interpolate(s, RAdd(RMul(p, Int2Rat(Len(s))), Rat(1, 2)))

quantile_r6(s, p) == Interpolate(s, RMul(Int2Rat(Len(s) + 1), p))

quantile_r7(s, p) == Interpolate(s, RAdd(RMul(Int2Rat(Len(s) - 1), p), Int2Rat(1)))

quantile_r8(s, p) ==
    Interpolate(s, RAdd(RMul(RAdd(Int2Rat(Len(s)), Rat(1, 3)), p), Rat(1, 3)))

quantile_r9(s, p) ==
    Interpolate(s, RAdd(RMul(RAdd(Int2Rat(Len(s)), Rat(1, 4)), p), Rat(3, 8)))

QuantileEnum == {"r1", "r2", "r3", "r4", "r5", "r6", "r7", "r8", "r9"}

\* getattr(_quantiles, f"quantile_{method.value}")
Estimator(method, s, p) ==
    CASE method = "r1" -> quantile_r1(s, p)
      [] method = "r2" -> quantile_r2(s, p)
      [] method = "r3" -> quantile_r3(s, p)
      [] method = "r4" -> quantile_r4(s, p)
      [] method = "r5" -> quantile_r5(s, p)
      [] method = "r6" -> quantile_r6(s, p)
      [] method = "r7" -> quantile_r7(s, p)
      [] method = "r8" -> quantile_r8(s, p)
      [] method = "r9" -> quantile_r9(s, p)

(***************************************************************************)
(* The library functions the container delegates to (Python's statistics   *)
(* module), on a non-empty list.                                           *)
(***************************************************************************)
Count(s, x) == Cardinality({i \in 1..Len(s) : s[i] = x})

IsMode(s, x) == \A i \in 1..Len(s) : Count(s, s[i]) <= Count(s, x)

FirstAt(s, i) == \A j \in 1..(i - 1) : s[j] # s[i]

RECURSIVE SelectFrom(_, _, _)
\* The elements of s at the positions of I that are >= i, in the order of s.
SelectFrom(s, i, I) ==
    IF i > Len(s) THEN <<>>
    ELSE (IF i \in I THEN <<s[i]>> ELSE <<>>) \o SelectFrom(s, i + 1, I)

Ints2Rats(s) == [i \in 1..Len(s) |-> Int2Rat(s[i])]

stat_mean(s) == Rat(SumSeq(s), Len(s))

stat_median(s) ==
    LET srt == Sorted(s)
        n   == Len(s)
        i   == n \div 2
    IN  IF n % 2 = 1 THEN Int2Rat(At(srt, i))
        ELSE Rat(At(srt, i - 1) + At(srt, i), 2)

stat_median_low(s) ==
    LET srt == Sorted(s)
        n   == Len(s)
    IN  IF n % 2 = 1 THEN Int2Rat(At(srt, n \div 2))
        ELSE Int2Rat(At(srt, (n \div 2) - 1))

stat_median_high(s) == Int2Rat(At(Sorted(s), Len(s) \div 2))

\* The most frequent values in the order of their first occurrence.
stat_multimode(s) ==
    Ints2Rats(SelectFrom(s, 1, {i \in 1..Len(s) : IsMode(s, s[i]) /\ FirstAt(s, i)}))

stat_mode(s) == stat_multimode(s)[1]

\* sum((x - c)**2 for x in data)
RECURSIVE SumSq(_, _)
SumSq(s, c) ==
    IF s = <<>> THEN Int2Rat(0)
    ELSE LET dev == RSub(Int2Rat(Head(s)), c)
         IN  RAdd(RMul(dev, dev), SumSq(Tail(s), c))

\* sum(abs(i - m) for i in self.data)
RECURSIVE SumAbs(_, _)
SumAbs(s, m) ==
    IF s = <<>> THEN Int2Rat(0)
    ELSE RAdd(RAbs(RSub(Int2Rat(Head(s)), m)), SumAbs(Tail(s), m))

\* An optional argument: <<>> when it is not passed (None), <<v>> when it is.
Given(opt)        == opt # <<>>
OrDefault(opt, d) == IF Given(opt) THEN opt[1] ELSE d

(***************************************************************************)
(* Data: the container's operations on the wrapped list d.                 *)
(***************************************************************************)
\* The decorator: EmptyDataError before the wrapped function runs.
not_empty(d, inner) == IF Len(d) = 0 THEN EmptyDataError ELSE inner

mean(d) == not_empty(d, Num(stat_mean(d)))

median(d) == not_empty(d, Num(stat_median(d)))

median_low(d) == not_empty(d, Num(stat_median_low(d)))

median_high(d) == not_empty(d, Num(stat_median_high(d)))

mode(d) == not_empty(d, Num(stat_mode(d)))

\* modes with the guard of the other accessors.
modes_guarded(d) == not_empty(d, Ok(stat_multimode(d)))

modes(d) == Ok(stat_multimode(d))

Max(s) == CHOOSE x \in {s[i] : i \in 1..Len(s)} : \A j \in 1..Len(s) : s[j] <= x
Min(s) == CHOOSE x \in {s[i] : i \in 1..Len(s)} : \A j \in 1..Len(s) : x <= s[j]

range(d) == not_empty(d, Num(Int2Rat(Max(d) - Min(d))))

DefaultSlices == 4
DefaultMethod == "r6"

\* self.data.sort() in the place of sorted(self.data): the wrapped list is sorted.
sort_in_place(d) == [self_data |-> Sorted(d), copy |-> Sorted(d)]

\* sorted(self.data): a sorted copy, the argument left as it is.
sorted_copy(d) == [self_data |-> d, copy |-> Sorted(d)]

\* The loop of quantiles over i = from..slices-1, res being the list so far and
\* reads the positions asked for so far; an estimator's IndexError ends it.
RECURSIVE quantiles_loop(_, _, _, _, _, _)
quantiles_loop(d, slices, method, i, res, reads) ==
    IF i >= slices THEN Out("ok", res, <<>>, reads)
    ELSE LET q == Estimator(method, sorted_copy(d).copy, Rat(i, slices))
         IN  IF q.kind # "ok"
             THEN Out(q.kind, <<>>, <<>>, reads \cup q.reads)
             ELSE quantiles_loop(d, slices, method, i + 1,
                                 Append(res, q.value[1]), reads \cup q.reads)

quantiles_body(d, slices, method) ==
    IF slices <= 1 THEN [self_data |-> d, ret |-> ValueError]
    ELSE IF slices >= Len(d) + 2
    THEN [self_data |-> d, ret |-> SlicingError(slices, Len(d))]
    ELSE [self_data |-> sorted_copy(d).self_data,
          ret       |-> quantiles_loop(d, slices, method, 1, <<>>, {})]

\* quantiles without its not_empty decorator.
quantiles_unguarded(d, slices, method) == quantiles_body(d, slices, method)

quantiles(d, slices, method) ==
    IF Len(d) = 0 THEN [self_data |-> d, ret |-> EmptyDataError]
    ELSE quantiles_body(d, slices, method)

pvariance(d, mu) ==
    RDiv(SumSq(d, IF Given(mu) THEN Int2Rat(mu[1]) ELSE stat_mean(d)),
         Int2Rat(Len(d)))

svariance(d, xbar) ==
    RDiv(SumSq(d, IF Given(xbar) THEN Int2Rat(xbar[1]) ELSE stat_mean(d)),
         Int2Rat(Len(d) - 1))

variance(d, mean_, type_) ==
    IF Len(d) < 2 THEN InsufficientDataError(2)
    ELSE IF type_ = "sample" THEN Num(svariance(d, mean_))
    ELSE Num(pvariance(d, mean_))

standard_deviation(d, mean_, type_) ==
    IF Len(d) < 2 THEN InsufficientDataError(2)
    ELSE IF type_ = "sample" THEN SqrtOf(Num(svariance(d, mean_)))
    ELSE SqrtOf(Num(pvariance(d, mean_)))

\* m = mean or self.mean: None and 0 are both falsy.
mean_absolute_deviation(d, mean_) ==
    not_empty(d,
        LET m == IF Given(mean_) /\ mean_[1] # 0
                 THEN Int2Rat(mean_[1]) ELSE mean(d).value[1]
        IN  Num(RDiv(SumAbs(d, m), Int2Rat(Len(d)))))

Ceil2(n)  == (n + 1) \div 2
Floor2(n) == n \div 2

\* self.data[:k] and self.data[k:]
Prefix(d, k) == SubSeq(d, 1, k)
Suffix(d, k) == SubSeq(d, k + 1, Len(d))

QuartileTriple(Q1, Q2, Q3) ==
    IF Q1.kind # "ok" THEN Q1
    ELSE IF Q2.kind # "ok" THEN Q2
    ELSE IF Q3.kind # "ok" THEN Q3
    ELSE Ok(<<Q1.value[1], Q2.value[1], Q3.value[1]>>)

\* real_quartiles cutting the lower half at ceil(n/2) whatever the parity.
real_quartiles_ceil(d) ==
    IF Len(d) < 3 THEN InsufficientDataError(4)
    ELSE QuartileTriple(median(Prefix(d, Ceil2(Len(d)))), median(d),
                        median(Suffix(d, Ceil2(Len(d)))))

\* real_quartiles with the two halves exchanged: Q1 from the upper half.
real_quartiles_swapped(d) ==
    IF Len(d) < 3 THEN InsufficientDataError(4)
    ELSE QuartileTriple(median(Suffix(d, Ceil2(Len(d)))), median(d),
                        IF Len(d) % 2 = 0
                        THEN median(Prefix(d, Ceil2(Len(d))))
                        ELSE median(Prefix(d, Floor2(Len(d)))))

\* real_quartiles enforcing the minimum its message names.
real_quartiles_min4(d) ==
    IF Len(d) < 4 THEN InsufficientDataError(4)
    ELSE QuartileTriple(IF Len(d) % 2 = 0
                        THEN median(Prefix(d, Ceil2(Len(d))))
                        ELSE median(Prefix(d, Floor2(Len(d)))),
                        median(d), median(Suffix(d, Ceil2(Len(d)))))

real_quartiles(d) ==
    IF Len(d) < 3 THEN InsufficientDataError(4)
    ELSE LET Q1 == IF Len(d) % 2 = 0
                   THEN median(Prefix(d, Ceil2(Len(d))))
                   ELSE median(Prefix(d, Floor2(Len(d))))
             Q2 == median(d)
             Q3 == median(Suffix(d, Ceil2(Len(d))))
         IN  QuartileTriple(Q1, Q2, Q3)

quartile_mean(d) ==
    LET q == real_quartiles(d)
    IN  IF q.kind # "ok" THEN q
        ELSE Num(RDiv(RAdd(q.value[1], q.value[3]), Int2Rat(2)))

quartile_deviation(d) ==
    LET q == real_quartiles(d)
    IN  IF q.kind # "ok" THEN q
        ELSE Num(RDiv(RSub(q.value[3], q.value[1]), Int2Rat(2)))

expanse(d) ==
    LET q == real_quartiles(d)
    IN  IF q.kind # "ok" THEN q
        ELSE Num(RSub(q.value[3], q.value[1]))

average_of_three(d) ==
    LET q == real_quartiles(d)
    IN  IF q.kind # "ok" THEN q
        ELSE Num(RDiv(RAdd(RAdd(q.value[1], RMul(Int2Rat(2), q.value[2])),
                           q.value[3]),
                      Int2Rat(4)))

\* x <= lb or x >= ub: the bounds themselves counted as outliers.
OutsideOrOn(x, lb, ub) == ~RLt(lb, Int2Rat(x)) \/ ~RLt(Int2Rat(x), ub)

\* x < lb or x > ub
Outside(x, lb, ub) == RLt(Int2Rat(x), lb) \/ RLt(ub, Int2Rat(x))

tukey_fences(d) ==
    LET q == real_quartiles(d)
    IN  IF q.kind # "ok" THEN q
        ELSE LET e1 == expanse(d)
                 e2 == expanse(d)
             IN  IF e1.kind # "ok" THEN e1
                 ELSE IF e2.kind # "ok" THEN e2
                 ELSE LET lb == RSub(q.value[1], RMul(Rat(3, 2), e1.value[1]))
                          ub == RAdd(q.value[3], RMul(Rat(3, 2), e2.value[1]))
                      IN  Ok(Ints2Rats(SelectFrom(d, 1,
                              {i \in 1..Len(d) : Outside(d[i], lb, ub)})))

(***************************************************************************)
(* The state machine: a caller holds one container and invokes its         *)
(* operations one after the other.  data is the wrapped list (self.data),  *)
(* call the invocation in progress with its arguments as passed, result    *)
(* what it returned or raised.                                             *)
(***************************************************************************)
Values    == 0..MaxVal
Datasets  == SeqsUpTo(Values, MaxLen)
OptSlices == {<<>>} \cup {<<s>> : s \in 0..(MaxLen + 2)}
OptMethod == {<<>>} \cup {<<m>> : m \in QuantileEnum}
OptMean   == {<<>>} \cup {<<m>> : m \in Values}
OptType   == {<<>>} \cup {<<"sample">>, <<"population">>}

Invocation(op, slices, method, mean_, type_) ==
    [op |-> op, slices |-> slices, method |-> method, mean |-> mean_, type |-> type_]

NoArgs(op) == Invocation(op, <<>>, <<>>, <<>>, <<>>)

\* What invoking c on a container wrapping d does: the list the container
\* wraps afterwards, and what the call returns or raises.
Unchanged(d, out) == [self_data |-> d, ret |-> out]

Run(c, d) ==
    CASE c.op = "mean"        -> Unchanged(d, mean(d))
      [] c.op = "median"      -> Unchanged(d, median(d))
      [] c.op = "median_low"  -> Unchanged(d, median_low(d))
      [] c.op = "median_high" -> Unchanged(d, median_high(d))
      [] c.op = "mode"        -> Unchanged(d, mode(d))
      [] c.op = "modes"       -> Unchanged(d, modes(d))
      [] c.op = "range"       -> Unchanged(d, range(d))
      [] c.op = "quantiles"   ->
             quantiles(d, OrDefault(c.slices, DefaultSlices),
                       OrDefault(c.method, DefaultMethod))
      [] c.op = "standard_deviation" ->
             Unchanged(d, standard_deviation(d, c.mean, OrDefault(c.type, "population")))
      [] c.op = "variance" ->
             Unchanged(d, variance(d, c.mean, OrDefault(c.type, "population")))
      [] c.op = "mean_absolute_deviation" ->
             Unchanged(d, mean_absolute_deviation(d, c.mean))
      [] c.op = "real_quartiles"     -> Unchanged(d, real_quartiles(d))
      [] c.op = "quartile_mean"      -> Unchanged(d, quartile_mean(d))
      [] c.op = "quartile_deviation" -> Unchanged(d, quartile_deviation(d))
      [] c.op = "expanse"            -> Unchanged(d, expanse(d))
      [] c.op = "average_of_three"   -> Unchanged(d, average_of_three(d))
      [] c.op = "tukey_fences"       -> Unchanged(d, tukey_fences(d))

\* The call c runs to its return or its exception, with the outcome out.
Returns(c, out) ==
    /\ call' = c
    /\ result' = out.ret
    /\ data' = out.self_data
    /\ pc' = "returned"

Init ==
    /\ data \in Datasets
    /\ pc = "idle"
    /\ call = NoArgs("none")
    /\ result = NoResult

Mean == pc = "idle" /\ Returns(NoArgs("mean"), Unchanged(data, mean(data)))

Median == pc = "idle" /\ Returns(NoArgs("median"), Unchanged(data, median(data)))

MedianLow == pc = "idle" /\ Returns(NoArgs("median_low"), Unchanged(data, median_low(data)))

MedianHigh == pc = "idle" /\ Returns(NoArgs("median_high"), Unchanged(data, median_high(data)))

Mode == pc = "idle" /\ Returns(NoArgs("mode"), Unchanged(data, mode(data)))

Modes == pc = "idle" /\ Returns(NoArgs("modes"), Unchanged(data, modes(data)))

Range == pc = "idle" /\ Returns(NoArgs("range"), Unchanged(data, range(data)))

Quantiles ==
    /\ pc = "idle"
    /\ \E sl \in OptSlices, m \in OptMethod :
           Returns(Invocation("quantiles", sl, m, <<>>, <<>>),
                   quantiles(data, OrDefault(sl, DefaultSlices),
                             OrDefault(m, DefaultMethod)))

StandardDeviation ==
    /\ pc = "idle"
    /\ \E mu \in OptMean, ty \in OptType :
           Returns(Invocation("standard_deviation", <<>>, <<>>, mu, ty),
                   Unchanged(data, standard_deviation(data, mu,
                                                      OrDefault(ty, "population"))))

Variance ==
    /\ pc = "idle"
    /\ \E mu \in OptMean, ty \in OptType :
           Returns(Invocation("variance", <<>>, <<>>, mu, ty),
                   Unchanged(data, variance(data, mu, OrDefault(ty, "population"))))

MeanAbsoluteDeviation ==
    /\ pc = "idle"
    /\ \E mu \in OptMean :
           Returns(Invocation("mean_absolute_deviation", <<>>, <<>>, mu, <<>>),
                   Unchanged(data, mean_absolute_deviation(data, mu)))

RealQuartiles == pc = "idle" /\ Returns(NoArgs("real_quartiles"), Unchanged(data, real_quartiles(data)))

QuartileMean == pc = "idle" /\ Returns(NoArgs("quartile_mean"), Unchanged(data, quartile_mean(data)))

QuartileDeviation == pc = "idle" /\ Returns(NoArgs("quartile_deviation"), Unchanged(data, quartile_deviation(data)))

Expanse == pc = "idle" /\ Returns(NoArgs("expanse"), Unchanged(data, expanse(data)))

AverageOfThree == pc = "idle" /\ Returns(NoArgs("average_of_three"), Unchanged(data, average_of_three(data)))

TukeyFences == pc = "idle" /\ Returns(NoArgs("tukey_fences"), Unchanged(data, tukey_fences(data)))

\* The caller makes the call that has just returned a second time, with the
\* same arguments.
CallAgain == pc = "returned" /\ Returns(call, Run(call, data))

\* The caller has taken the result (or handled the exception) and goes on.
Resume ==
    /\ pc = "returned"
    /\ pc' = "idle"
    /\ call' = NoArgs("none")
    /\ result' = NoResult
    /\ UNCHANGED data

Next ==
    \/ Mean
    \/ Median
    \/ MedianLow
    \/ MedianHigh
    \/ Mode
    \/ Modes
    \/ Range
    \/ Quantiles
    \/ StandardDeviation
    \/ Variance
    \/ MeanAbsoluteDeviation
    \/ RealQuartiles
    \/ QuartileMean
    \/ QuartileDeviation
    \/ Expanse
    \/ AverageOfThree
    \/ TukeyFences
    \/ CallAgain
    \/ Resume

Spec == Init /\ [][Next]_vars

\* The same caller, holding a container built around a list that is already in
\* ascending order.
AscendingDatasets == {s \in SeqsUpTo(Values, MaxAscLen) : s = Sorted(s)}

InitAscending ==
    /\ data \in AscendingDatasets
    /\ pc = "idle"
    /\ call = NoArgs("none")
    /\ result = NoResult

SpecAscending == InitAscending /\ [][Next]_vars

(***************************************************************************)
(* Properties.                                                             *)
(***************************************************************************)
Returned(op) == pc = "returned" /\ call.op = op

n == Len(data)

\* The slice count and the estimator a quantiles call runs with.
SlicesArg == OrDefault(call.slices, DefaultSlices)
MethodArg == OrDefault(call.method, DefaultMethod)

\* quantiles was called within its documented domain.
QuantilesInDomain ==
    /\ Returned("quantiles")
    /\ n >= 1
    /\ 1 < SlicesArg
    /\ SlicesArg < n + 2

\* C1: within 1 < slices < n+2 on a non-empty dataset, the estimators that
\* quantiles() calls ask only for positions 0..n-1 of the sorted copy.
C1_ReadsInRange ==
    QuantilesInDomain => result.reads \subseteq 0..(n - 1)

\* C2: within 1 < slices < n+2 on a non-empty dataset, quantiles() returns
\* slices-1 values, the i-th being the selected estimator (R-6 by default) on
\* the ascending copy at p = i/slices.
C2_QuantilesSucceeds ==
    QuantilesInDomain =>
        /\ result.kind = "ok"
        /\ Len(result.value) = SlicesArg - 1
        /\ \A i \in 1..(SlicesArg - 1) :
               LET q == Estimator(MethodArg, Sorted(data), Rat(i, SlicesArg))
               IN  q.kind = "ok" /\ result.value[i] = q.value[1]

C4_TwoSlicesIsMedian ==
    (Returned("quantiles") /\ call.slices = <<2>> /\ call.method = <<>> /\ n >= 1) =>
        /\ result.kind = "ok"
        /\ result.value = <<median(data).value[1]>>

\* The k-th smallest element of s (k in 1..Len(s)), without sorting.
OrderStat(s, k) ==
    CHOOSE x \in {s[i] : i \in 1..Len(s)} :
        /\ Cardinality({i \in 1..Len(s) : s[i] < x}) < k
        /\ Cardinality({i \in 1..Len(s) : s[i] <= x}) >= k

\* The median of the elements of s at the 0-based positions lo..hi.
MedianOfPositions(s, lo, hi) ==
    LET part == [i \in 1..(hi - lo + 1) |-> s[lo + i]]
        len  == hi - lo + 1
    IN  IF len % 2 = 1 THEN Int2Rat(OrderStat(part, (len + 1) \div 2))
        ELSE Rat(OrderStat(part, len \div 2) + OrderStat(part, (len \div 2) + 1), 2)

\* C5: for n >= 3 real_quartiles() returns (Q1, Q2, Q3), Q2 the median of the
\* whole dataset, Q3 the median of the stored positions ceil(n/2)..n-1, Q1 the
\* median of the stored positions 0..ceil(n/2)-1 (n even) or 0..floor(n/2)-1
\* (n odd): for odd n the middle position floor(n/2) is in neither half.
C5_QuartileSplit ==
    (Returned("real_quartiles") /\ n >= 3) =>
        /\ result.kind = "ok"
        /\ result.value =
             << MedianOfPositions(data, 0,
                    IF n % 2 = 0 THEN ((n + 1) \div 2) - 1 ELSE (n \div 2) - 1),
                MedianOfPositions(data, 0, n - 1),
                MedianOfPositions(data, (n + 1) \div 2, n - 1) >>

\* An odd-length dataset, not in ascending order, whose quartiles were returned.
C5_Witness ==
    /\ Returned("real_quartiles")
    /\ n >= 3
    /\ n % 2 = 1
    /\ data # Sorted(data)
    /\ result.kind = "ok"

NeedsTwo   == {"standard_deviation", "variance"}
NeedsThree == {"real_quartiles", "quartile_mean", "quartile_deviation", "expanse",
               "average_of_three", "tukey_fences"}

\* C6: standard_deviation and variance fail, with InsufficientDataError and
\* nothing else, exactly when n < 2; real_quartiles and the five operations
\* built on it fail, with the InsufficientDataError of real_quartiles (the
\* one naming 4) and nothing else, exactly when n < 3, n = 0 included.
C6_InsufficientData ==
    /\ (pc = "returned" /\ call.op \in NeedsTwo) =>
           IF n < 2 THEN result = InsufficientDataError(2) ELSE result.kind = "ok"
    /\ (pc = "returned" /\ call.op \in NeedsThree) =>
           IF n < 3 THEN result = InsufficientDataError(4) ELSE result.kind = "ok"

\* tukey_fences on the empty dataset: InsufficientDataError, not EmptyDataError.
C6_Witness ==
    /\ Returned("tukey_fences")
    /\ n = 0
    /\ result.kind = "InsufficientDataError"

\* The Tukey bounds of the dataset, from the quartile triple.
LowerBound ==
    LET q == real_quartiles(data).value
    IN  RSub(q[1], RMul(Rat(3, 2), RSub(q[3], q[1])))
UpperBound ==
    LET q == real_quartiles(data).value
    IN  RAdd(q[3], RMul(Rat(3, 2), RSub(q[3], q[1])))

StrictlyOutside(x) == RLt(Int2Rat(x), LowerBound) \/ RLt(UpperBound, Int2Rat(x))

\* C7: for n >= 3 tukey_fences() returns the stored elements x with
\* x < Q1 - 1.5*(Q3-Q1) or x > Q3 + 1.5*(Q3-Q1), in stored order, duplicates
\* kept, elements equal to a bound left out.
C7_TukeyFences ==
    (Returned("tukey_fences") /\ n >= 3) =>
        /\ result.kind = "ok"
        /\ result.value = Ints2Rats(SelectSeq(data, StrictlyOutside))

\* Some elements are returned, and one that equals a bound is not.
C7_Witness ==
    /\ Returned("tukey_fences")
    /\ n >= 3
    /\ result.kind = "ok"
    /\ Len(result.value) >= 2
    /\ \E i \in 1..n : Int2Rat(data[i]) = LowerBound \/ Int2Rat(data[i]) = UpperBound

Guarded == {"mean", "median", "median_low", "median_high", "mode", "range",
            "mean_absolute_deviation"}

\* C8: mean, median, median_low, median_high, mode, range and
\* mean_absolute_deviation succeed on every non-empty dataset and fail with
\* EmptyDataError on the empty one; modes never fails and returns the empty
\* list on the empty dataset.
C8_EmptyData ==
    /\ (pc = "returned" /\ call.op \in Guarded) =>
           IF n = 0 THEN result = EmptyDataError ELSE result.kind = "ok"
    /\ Returned("modes") =>
           /\ result.kind = "ok"
           /\ n = 0 => result.value = <<>>

\* modes on the empty dataset returned the empty list.
C8_Witness ==
    /\ Returned("modes")
    /\ n = 0
    /\ result = Ok(<<>>)

\* C9: on a non-empty dataset mean_absolute_deviation(mean=m) is
\* sum(|x - m|)/n for every supplied m, 0 included; without m it is taken
\* around the dataset's own mean.
C9_SuppliedMeanUsed ==
    (Returned("mean_absolute_deviation") /\ n >= 1) =>
        LET m == IF Given(call.mean) THEN Int2Rat(call.mean[1]) ELSE Rat(SumSeq(data), n)
        IN  result = Num(RDiv(SumAbs(data, m), Int2Rat(n)))

\* C10: no operation, succeeding or failing, changes the wrapped sequence, and
\* an operation invoked again with the same arguments returns the same result.
C10_NoMutation ==
    [][/\ data' = data
       /\ (pc = "returned" /\ pc' = "returned") => (call' = call /\ result' = result)]_vars

\* quantiles succeeded on a dataset that is still not in ascending order.
C10_Witness ==
    /\ Returned("quantiles")
    /\ result.kind = "ok"
    /\ data # Sorted(data)

RLe(a, b) == ~RLt(b, a)

\* The quartile triple of the dataset.
Q1 == real_quartiles(data).value[1]
Q3 == real_quartiles(data).value[3]

\* C11: on a dataset of n >= 3 elements stored in ascending order,
\* real_quartiles() returns Q1 <= Q2 <= Q3; so expanse() and
\* quartile_deviation() are >= 0, the lower Tukey bound is <= the upper one,
\* and tukey_fences() returns no element x with Q1 <= x <= Q3.
C11_AscendingQuartiles ==
    (pc = "returned" /\ n >= 3 /\ data = Sorted(data)) =>
        /\ call.op = "real_quartiles" =>
               /\ result.kind = "ok"
               /\ RLe(result.value[1], result.value[2])
               /\ RLe(result.value[2], result.value[3])
        /\ call.op \in {"expanse", "quartile_deviation"} =>
               /\ result.kind = "ok"
               /\ RLe(Int2Rat(0), result.value[1])
        /\ call.op = "tukey_fences" =>
               /\ result.kind = "ok"
               /\ RLe(LowerBound, UpperBound)
               /\ \A i \in 1..Len(result.value) :
                      ~(RLe(Q1, result.value[i]) /\ RLe(result.value[i], Q3))

\* An ascending dataset of which tukey_fences returned some elements, not all.
C11_Witness ==
    /\ Returned("tukey_fences")
    /\ n >= 3
    /\ data = Sorted(data)
    /\ result.kind = "ok"
    /\ Len(result.value) >= 1
    /\ Len(result.value) < n

====
